---------------------------- MODULE Spec2Model ----------------------------
(***************************************************************************)
(* Model of geologic's Grid2D (src/src/grid.rs): a flat buffer addressed   *)
(* as rows of cells, each cell chunk_size elements wide, with the region   *)
(* operations write, insert and slice built on row_ranges.                 *)
(*                                                                         *)
(* A behaviour is one program run: the build is fixed at the start         *)
(* (debug_assertions on or off), a grid is constructed with Grid2D::new,   *)
(* and then the caller makes calls on it one after the other.  `last`      *)
(* holds the call that has just finished (its arguments, the buffer as it  *)
(* was before, the mutator invocations in order, and the outcome); the     *)
(* caller takes it with Return before the next call.  A panic unwinds to   *)
(* the caller, who still owns the grid.                                    *)
(*                                                                         *)
(* Indices are usize in the source; at the sizes modelled no product or    *)
(* sum comes near the word size, so they are plain naturals here.          *)
(*                                                                         *)
(* Two smaller specifications share the grid's operators.  SpecWrites runs *)
(* sequences of in-bounds write calls with adding mutators and keeps the   *)
(* buffer at construction and the calls made.  SpecBounds applies the      *)
(* Add and Sub of Bounds2D (src/src/bounds.rs) to a bounding box, with     *)
(* integer components.                                                     *)
(***************************************************************************)
EXTENDS Integers, Sequences, FiniteSets, TLC

\* Longest buffer handed to Grid2D::new.
MaxLen == 4
\* Largest grid width, chunk size and region extent (coordinates go to
\* MaxDim - 1): half the longest buffer, so the widest grid still has two rows.
MaxDim == MaxLen \div 2

\* Cell elements. Grid2D is generic in T::Item and only copies elements, so
\* two distinguishable values are enough to see where each element lands.
Values == {0, 1}

VARIABLES debug_assertions, constructed, arr, width, chunk_size, last

\* SpecWrites: the buffer handed to Grid2D::new and the write calls made since.
VARIABLES initial, writes

\* SpecBounds: a Bounds2D value and the operations that led to it.
VARIABLES box, trail

vars ==
    <<debug_assertions, constructed, arr, width, chunk_size, last,
      initial, writes, box, trail>>

---------------------------------------------------------------------------
\* Inputs

SeqsUpTo(n) == UNION {[1..k -> Values] : k \in 0..n}

Buffers == SeqsUpTo(MaxLen)

\* The data handed to insert for a box: every sequence up to one element longer
\* than the box needs (or than the buffer, when the box is larger still).
Min(a, b) == IF a <= b THEN a ELSE b

Datas(bounds, cs, len) ==
    SeqsUpTo(Min(bounds[3] * cs * bounds[4], len) + 1)

Dims == 0..MaxDim

\* A bounding box <<x, y, width, height>> in cell coordinates.
Regions == (0..(MaxDim - 1)) \X (0..(MaxDim - 1)) \X Dims \X Dims

\* The per-row mutators handed to write: add d to every element of the row.
Deltas == {1}

\* The mutators of SpecWrites add one of two amounts, those of the unit test.
WriteDeltas == {5, 2}

\* The most write calls SpecWrites makes on one grid.
MaxWrites == MaxDim

\* Bounding boxes <<x, y, width, height>>, offsets <<dx, dy>> and sizes
\* <<dw, dh>> handed to the Bounds2D arithmetic.
Boxes == Dims \X Dims \X Dims \X Dims

Offsets == (-1..1) \X (-1..1)

Sizes == (0..1) \X (0..1)

---------------------------------------------------------------------------
\* Outcomes

NoErr == [kind |-> "none", row |-> 0, expected |-> 0]

Panic(kind) == [kind |-> kind, row |-> 0, expected |-> 0]

NoCall ==
    [op |-> "none", bounds |-> <<0, 0, 0, 0>>, data |-> <<>>, delta |-> 0,
     outcome |-> "ok", err |-> NoErr, calls |-> <<>>, result |-> <<>>,
     pre |-> <<>>]

\* SpecBounds: no operation applied yet.
NoTrail ==
    [orig |-> <<0, 0, 0, 0>>, op |-> "none", rhs |-> <<0, 0>>, sub |-> <<0, 0>>]

---------------------------------------------------------------------------
\* grid.rs: index arithmetic

\* Slip: the row offset is taken in cells (y * grid_width, chunk_size forgotten).
index_at_row_unscaled(x, y, grid_width, cs) ==
    LET cell_x == x * cs
        cell_y == y * grid_width
    IN  cell_x + cell_y

index_at(x, y, grid_width, cs) ==
    LET cell_x == x * cs
        cell_y == y * (grid_width * cs)
    IN  cell_x + cell_y

\* Slip: the assertion looks at the height alone.
area_assert_height_only(dbg, bounds) ==
    dbg /\ ~(bounds[4] > 0)

\* debug_assert!(bounds.size().area() > 0): compiled only with debug assertions.
area_assert_fails(dbg, bounds) ==
    dbg /\ ~(bounds[3] * bounds[4] > 0)

\* Slip: the left edge is taken in cells, not in elements (x for x * chunk_size).
row_ranges_cell_x_unscaled(bounds, grid_width, cs) ==
    LET cell_x == bounds[1]
        w == bounds[3] * cs
        full_width == grid_width * cs
        start_cell == cell_x + (bounds[2] * full_width)
    IN  [row \in 1..bounds[4] |->
            LET start == start_cell + (row - 1) * full_width
            IN  [start |-> start, end |-> start + w]]

\* Slip: the row stride is taken in cells (grid_width for grid_width * chunk_size).
row_ranges_stride_unscaled(bounds, grid_width, cs) ==
    LET cell_x == bounds[1] * cs
        w == bounds[3] * cs
        full_width == grid_width
        start_cell == cell_x + (bounds[2] * full_width)
    IN  [row \in 1..bounds[4] |->
            LET start == start_cell + (row - 1) * full_width
            IN  [start |-> start, end |-> start + w]]

\* Slip: the rows come out last row first.
row_ranges_reversed(bounds, grid_width, cs) ==
    LET cell_x == bounds[1] * cs
        w == bounds[3] * cs
        full_width == grid_width * cs
        start_cell == cell_x + (bounds[2] * full_width)
    IN  [row \in 1..bounds[4] |->
            LET start == start_cell + (bounds[4] - row) * full_width
            IN  [start |-> start, end |-> start + w]]

\* Slip: the rows are counted from one, so every range lies one row too low.
row_ranges_rows_from_one(bounds, grid_width, cs) ==
    LET cell_x == bounds[1] * cs
        w == bounds[3] * cs
        full_width == grid_width * cs
        start_cell == cell_x + (bounds[2] * full_width)
    IN  [row \in 1..bounds[4] |->
            LET start == start_cell + row * full_width
            IN  [start |-> start, end |-> start + w]]

\* The ranges row_ranges yields, in order; a range is start..end, end excluded.
row_ranges(bounds, grid_width, cs) ==
    LET x == bounds[1]
        y == bounds[2]
        cell_x == x * cs
        w == bounds[3] * cs
        full_width == grid_width * cs
        start_cell == cell_x + (y * full_width)
    IN  [row \in 1..bounds[4] |->
            LET cell_y == (row - 1) * full_width
                start == start_cell + cell_y
            IN  [start |-> start, end |-> start + w]]

\* &self[range] on a slice: panics unless start <= end <= len.
range_in_slice(range, len) ==
    range.start <= range.end /\ range.end <= len

\* Slip: data.windows(n) for data.chunks_exact(n), the lines overlap.
chunks_exact_windows(data, n) ==
    [k \in 1..(Len(data) \div n) |-> SubSeq(data, k, k + n - 1)]

\* data.chunks_exact(n) for n > 0: the complete chunks, a short tail dropped.
chunks_exact(data, n) ==
    [k \in 1..(Len(data) \div n) |-> SubSeq(data, (k - 1) * n + 1, k * n)]

\* Slip: the buffer is cut off after the range written.
splice_truncating(a, range, slice) ==
    [i \in 1..range.end |->
        IF range.start < i THEN slice[i - range.start] ELSE a[i]]

\* a with the elements of range replaced by those of slice.
splice(a, range, slice) ==
    [i \in 1..Len(a) |->
        IF range.start < i /\ i <= range.end THEN slice[i - range.start] ELSE a[i]]

---------------------------------------------------------------------------
\* The closures handed to write. A mutator is called with the row index, the
\* row's slice and its own captured state (insert's closure owns `chunked`);
\* it returns the slice as it leaves it, or panics.

add_mutator(d) == [kind |-> "add", d |-> d, expected |-> 0]

insert_mutator(h) == [kind |-> "insert", d |-> 0, expected |-> h]

\* Slip: insert's closure reports the unmet row counting from one.
call_mutator_row_from_one(m, chunked, row, slice) ==
    IF m.kind = "add"
    THEN [panicked |-> FALSE, err |-> NoErr, chunked |-> chunked,
          slice |-> [i \in 1..Len(slice) |-> slice[i] + m.d]]
    ELSE IF chunked = <<>>
         THEN [panicked |-> TRUE,
               err |-> [kind |-> "data_stopped", row |-> row + 1, expected |-> m.expected],
               chunked |-> chunked, slice |-> slice]
         ELSE [panicked |-> FALSE, err |-> NoErr, chunked |-> Tail(chunked),
               slice |-> Head(chunked)]

call_mutator(m, chunked, row, slice) ==
    IF m.kind = "add"
    THEN [panicked |-> FALSE, err |-> NoErr, chunked |-> chunked,
          slice |-> [i \in 1..Len(slice) |-> slice[i] + m.d]]
    ELSE IF chunked = <<>>
         THEN [panicked |-> TRUE,
               err |-> [kind |-> "data_stopped", row |-> row, expected |-> m.expected],
               chunked |-> chunked, slice |-> slice]
         ELSE [panicked |-> FALSE, err |-> NoErr, chunked |-> Tail(chunked),
               slice |-> Head(chunked)]

\* Interpretation2D::write: for (row, range) in rows.enumerate().
RECURSIVE interpretation_write(_, _, _, _)
interpretation_write(st, rows, i, m) ==
    IF i > Len(rows) THEN st
    ELSE IF ~range_in_slice(rows[i], Len(st.arr))
    THEN [st EXCEPT !.outcome = "panic", !.err = Panic("index_out_of_range")]
    ELSE LET slice == SubSeq(st.arr, rows[i].start + 1, rows[i].end)
             call == [row |-> i - 1, start |-> rows[i].start, end |-> rows[i].end,
                      given |-> slice]
             r == call_mutator(m, st.chunked, i - 1, slice)
         IN  IF r.panicked
             THEN [st EXCEPT !.outcome = "panic", !.err = r.err,
                             !.calls = Append(@, call)]
             ELSE interpretation_write(
                      [st EXCEPT !.arr = splice(@, rows[i], r.slice),
                                 !.calls = Append(@, call),
                                 !.chunked = r.chunked],
                      rows, i + 1, m)

\* Slip: a write that panics hands the buffer back as it was before the call.
grid_write_rollback(dbg, a, gw, cs, bounds, m, chunked) ==
    LET st0 == [arr |-> a, calls |-> <<>>, chunked |-> chunked,
                outcome |-> "ok", err |-> NoErr]
        st == IF area_assert_fails(dbg, bounds)
              THEN [st0 EXCEPT !.outcome = "panic", !.err = Panic("area_assert")]
              ELSE interpretation_write(st0, row_ranges(bounds, gw, cs), 1, m)
    IN  IF st.outcome = "panic" THEN [st EXCEPT !.arr = a] ELSE st

\* Grid2D::write: row_ranges, then Interpretation2D::write.
grid_write(dbg, a, gw, cs, bounds, m, chunked) ==
    LET st0 == [arr |-> a, calls |-> <<>>, chunked |-> chunked,
                outcome |-> "ok", err |-> NoErr]
    IN  IF area_assert_fails(dbg, bounds)
        THEN [st0 EXCEPT !.outcome = "panic", !.err = Panic("area_assert")]
        ELSE interpretation_write(st0, row_ranges(bounds, gw, cs), 1, m)

\* Slip: insert takes only data of exactly the length the box needs.
grid_insert_exact_length(dbg, a, gw, cs, bounds, data) ==
    LET line_length == bounds[3] * cs
    IN  IF line_length = 0
        THEN [arr |-> a, calls |-> <<>>, chunked |-> <<>>,
              outcome |-> "panic", err |-> Panic("chunks_exact_zero")]
        ELSE IF Len(data) # line_length * bounds[4]
        THEN [arr |-> a, calls |-> <<>>, chunked |-> <<>>,
              outcome |-> "panic", err |-> Panic("data_length")]
        ELSE grid_write(dbg, a, gw, cs, bounds, insert_mutator(bounds[4]),
                        chunks_exact(data, line_length))

\* Grid2D::insert.
grid_insert(dbg, a, gw, cs, bounds, data) ==
    LET line_length == bounds[3] * cs
    IN  IF line_length = 0
        THEN [arr |-> a, calls |-> <<>>, chunked |-> <<>>,
              outcome |-> "panic", err |-> Panic("chunks_exact_zero")]
        ELSE grid_write(dbg, a, gw, cs, bounds, insert_mutator(bounds[4]),
                        chunks_exact(data, line_length))

\* Grid2D::slice: the elements of every row range, in row order.
RECURSIVE flat_map_rows(_, _, _, _)
flat_map_rows(a, rows, i, acc) ==
    IF i > Len(rows) THEN [outcome |-> "ok", err |-> NoErr, result |-> acc]
    ELSE IF ~range_in_slice(rows[i], Len(a))
    THEN [outcome |-> "panic", err |-> Panic("index_out_of_range"), result |-> <<>>]
    ELSE flat_map_rows(a, rows, i + 1,
                       acc \o SubSeq(a, rows[i].start + 1, rows[i].end))

\* Slip: the rows are collected last row first.
grid_slice_rows_reversed(dbg, a, gw, cs, bounds) ==
    IF area_assert_fails(dbg, bounds)
    THEN [outcome |-> "panic", err |-> Panic("area_assert"), result |-> <<>>]
    ELSE flat_map_rows(a, row_ranges_reversed(bounds, gw, cs), 1, <<>>)

grid_slice(dbg, a, gw, cs, bounds) ==
    IF area_assert_fails(dbg, bounds)
    THEN [outcome |-> "panic", err |-> Panic("area_assert"), result |-> <<>>]
    ELSE flat_map_rows(a, row_ranges(bounds, gw, cs), 1, <<>>)

\* Slip: the height is the buffer length over the width, chunk_size forgotten.
grid_size_chunk_forgotten(a, gw, cs) ==
    IF cs = 0 \/ gw = 0
    THEN [outcome |-> "panic", err |-> Panic("divide_by_zero"), result |-> <<>>]
    ELSE [outcome |-> "ok", err |-> NoErr, result |-> <<gw, Len(a) \div gw>>]

\* Grid2D::size.
grid_size(a, gw, cs) ==
    IF cs = 0 \/ gw = 0
    THEN [outcome |-> "panic", err |-> Panic("divide_by_zero"), result |-> <<>>]
    ELSE [outcome |-> "ok", err |-> NoErr, result |-> <<gw, (Len(a) \div cs) \div gw>>]

\* Slip: the length is compared with itself, so the assertion never fires.
grid_new_length_unchecked(dbg, arr_size, gw, cs) ==
    IF ~dbg THEN "ok"
    ELSE IF ~(cs > 0) THEN "chunk_size_assert"
    ELSE IF gw * cs = 0 THEN "divide_by_zero"
    ELSE "ok"

\* Slip: the chunk-size assertion is missing; the division meets the zero.
grid_new_no_chunk_assert(dbg, arr_size, gw, cs) ==
    IF ~dbg THEN "ok"
    ELSE IF gw * cs = 0 THEN "divide_by_zero"
    ELSE LET inferred_height == arr_size \div (gw * cs)
             expected_size == inferred_height * gw * cs
         IN  IF expected_size = arr_size THEN "ok" ELSE "length_assert"

\* Grid2D::new: what construction does with a buffer of arr_size elements.
grid_new(dbg, arr_size, gw, cs) ==
    IF ~dbg THEN "ok"
    ELSE IF ~(cs > 0) THEN "chunk_size_assert"
    ELSE IF gw * cs = 0 THEN "divide_by_zero"
    ELSE LET inferred_height == arr_size \div (gw * cs)
             expected_size == inferred_height * gw * cs
         IN  IF expected_size = arr_size THEN "ok" ELSE "length_assert"

---------------------------------------------------------------------------
\* bounds.rs: Bounds2D and its arithmetic. A box is <<x, y, width, height>>,
\* its position <<x, y>> and its size <<width, height>>; the components are
\* integers.

box_position(b) == <<b[1], b[2]>>

box_size(b) == <<b[3], b[4]>>

from_position_and_size(position, size) ==
    <<position[1], position[2], size[1], size[2]>>

\* Vector2D::add_components and sub_components.
add_components(v, rhs) == <<v[1] + rhs[1], v[2] + rhs[2]>>

sub_components(v, rhs) == <<v[1] - rhs[1], v[2] - rhs[2]>>

\* Point2D + Offset2D and Point2D - Offset2D, component by component.
point_add(p, rhs) == add_components(p, rhs)

point_sub(p, rhs) == sub_components(p, rhs)

\* Size2D + Size2D and Size2D - Size2D.
size_add(s, rhs) == <<s[1] + rhs[1], s[2] + rhs[2]>>

size_sub(s, rhs) == <<s[1] - rhs[1], s[2] - rhs[2]>>

\* Slip: adding a size moves the position as well.
bounds_add_size_moving(b, rhs) ==
    from_position_and_size(point_add(box_position(b), rhs),
                           size_add(box_size(b), rhs))

\* Bounds2D + Offset2D, + Size2D, - Offset2D, - Size2D.
bounds_add_offset(b, rhs) ==
    from_position_and_size(point_add(box_position(b), rhs), box_size(b))

bounds_add_size(b, rhs) ==
    from_position_and_size(box_position(b), size_add(box_size(b), rhs))

bounds_sub_offset(b, rhs) ==
    from_position_and_size(point_sub(box_position(b), rhs), box_size(b))

bounds_sub_size(b, rhs) ==
    from_position_and_size(box_position(b), size_sub(box_size(b), rhs))

---------------------------------------------------------------------------
\* Actions

Init ==
    /\ debug_assertions \in BOOLEAN
    /\ constructed = FALSE
    /\ arr = <<>>
    /\ width = 0
    /\ chunk_size = 0
    /\ last = NoCall
    /\ initial = <<>>
    /\ writes = <<>>
    /\ box = <<0, 0, 0, 0>>
    /\ trail = NoTrail

Ready == last.op = "none"

New ==
    /\ Ready
    /\ ~constructed
    /\ \E a \in Buffers, gw \in Dims, cs \in Dims :
         LET r == grid_new(debug_assertions, Len(a), gw, cs)
         IN  /\ last' = [NoCall EXCEPT !.op = "new", !.data = a,
                                       !.bounds = <<0, 0, gw, cs>>,
                                       !.outcome = IF r = "ok" THEN "ok" ELSE "panic",
                                       !.err = IF r = "ok" THEN NoErr ELSE Panic(r)]
             /\ IF r = "ok"
                THEN /\ constructed' = TRUE
                     /\ arr' = a
                     /\ width' = gw
                     /\ chunk_size' = cs
                ELSE UNCHANGED <<constructed, arr, width, chunk_size>>
    /\ UNCHANGED <<debug_assertions, initial, writes, box, trail>>

Write ==
    /\ Ready
    /\ constructed
    /\ \E b \in Regions, d \in Deltas :
         LET r == grid_write(debug_assertions, arr, width, chunk_size, b,
                             add_mutator(d), <<>>)
         IN  \* elements stay within Values: the cap on the mutator's additions
             /\ \A i \in 1..Len(r.arr) : r.arr[i] \in Values
             /\ arr' = r.arr
             /\ last' = [NoCall EXCEPT !.op = "write", !.bounds = b, !.delta = d,
                                       !.outcome = r.outcome, !.err = r.err,
                                       !.calls = r.calls, !.pre = arr]
    /\ UNCHANGED <<debug_assertions, constructed, width, chunk_size>>
    /\ UNCHANGED <<initial, writes, box, trail>>

Insert ==
    /\ Ready
    /\ constructed
    /\ \E b \in Regions :
       \E data \in Datas(b, chunk_size, Len(arr)) :
         LET r == grid_insert(debug_assertions, arr, width, chunk_size, b, data)
         IN  /\ arr' = r.arr
             /\ last' = [NoCall EXCEPT !.op = "insert", !.bounds = b, !.data = data,
                                       !.outcome = r.outcome, !.err = r.err,
                                       !.calls = r.calls, !.pre = arr]
    /\ UNCHANGED <<debug_assertions, constructed, width, chunk_size>>
    /\ UNCHANGED <<initial, writes, box, trail>>

\* Slip: a draining read, the elements handed out are zeroed in the buffer.
Slice_draining ==
    /\ Ready
    /\ constructed
    /\ \E b \in Regions :
         LET r == grid_slice(debug_assertions, arr, width, chunk_size, b)
             rows == row_ranges(b, width, chunk_size)
         IN  /\ last' = [NoCall EXCEPT !.op = "slice", !.bounds = b,
                                       !.outcome = r.outcome, !.err = r.err,
                                       !.result = r.result, !.pre = arr]
             /\ arr' = IF r.outcome = "ok"
                       THEN [i \in 1..Len(arr) |->
                               IF \E k \in 1..Len(rows) :
                                    rows[k].start < i /\ i <= rows[k].end
                               THEN 0 ELSE arr[i]]
                       ELSE arr
    /\ UNCHANGED <<debug_assertions, constructed, width, chunk_size>>
    /\ UNCHANGED <<initial, writes, box, trail>>

Slice ==
    /\ Ready
    /\ constructed
    /\ \E b \in Regions :
         LET r == grid_slice(debug_assertions, arr, width, chunk_size, b)
         IN  last' = [NoCall EXCEPT !.op = "slice", !.bounds = b,
                                    !.outcome = r.outcome, !.err = r.err,
                                    !.result = r.result, !.pre = arr]
    /\ UNCHANGED <<debug_assertions, constructed, arr, width, chunk_size>>
    /\ UNCHANGED <<initial, writes, box, trail>>

Size ==
    /\ Ready
    /\ constructed
    /\ LET r == grid_size(arr, width, chunk_size)
       IN  last' = [NoCall EXCEPT !.op = "size", !.outcome = r.outcome,
                                  !.err = r.err, !.result = r.result, !.pre = arr]
    /\ UNCHANGED <<debug_assertions, constructed, arr, width, chunk_size>>
    /\ UNCHANGED <<initial, writes, box, trail>>

Index ==
    /\ Ready
    /\ constructed
    /\ \E x \in Dims, y \in Dims :
         last' = [NoCall EXCEPT !.op = "index", !.bounds = <<x, y, 0, 0>>,
                                !.result = <<index_at(x, y, width, chunk_size)>>,
                                !.pre = arr]
    /\ UNCHANGED <<debug_assertions, constructed, arr, width, chunk_size>>
    /\ UNCHANGED <<initial, writes, box, trail>>

\* The caller takes the finished call's outcome; the grid is ready for the next.
Return ==
    /\ ~Ready
    /\ last' = NoCall
    /\ UNCHANGED <<debug_assertions, constructed, arr, width, chunk_size>>
    /\ UNCHANGED <<initial, writes, box, trail>>

Next == New \/ Write \/ Insert \/ Slice \/ Size \/ Index \/ Return

Spec == Init /\ [][Next]_vars

---------------------------------------------------------------------------
\* Vocabulary of the properties

\* The grid is well formed: the buffer is width * chunk_size * Height long.
ValidGrid ==
    /\ constructed
    /\ width >= 1
    /\ chunk_size >= 1
    /\ Len(arr) % (width * chunk_size) = 0

Height == Len(arr) \div (width * chunk_size)

\* The finished call's box.
bx == last.bounds[1]
by == last.bounds[2]
bw == last.bounds[3]
bh == last.bounds[4]

PositiveArea == bw >= 1 /\ bh >= 1

InsideGrid == bx + bw <= width /\ by + bh <= Height

RegionCall == last.op \in {"write", "insert", "slice"}

\* The cell a buffer index (from 0) belongs to.
ColOf(i) == (i \div chunk_size) % width
RowOf(i) == i \div (width * chunk_size)

---------------------------------------------------------------------------
\* C1: round trip. On a well-formed grid, after insert(R, D) with R of positive
\* area inside the grid and D exactly w * chunk_size * h long, the insert has
\* succeeded and slice(R) returns D, element for element, whatever the buffer
\* held before the insert.
C1_RoundTrip ==
    (/\ last.op = "insert"
     /\ ValidGrid /\ PositiveArea /\ InsideGrid
     /\ Len(last.data) = bw * chunk_size * bh)
    => /\ last.outcome = "ok"
       /\ LET s == grid_slice(debug_assertions, arr, width, chunk_size, last.bounds)
          IN  s.outcome = "ok" /\ s.result = last.data

C1_Witness ==
    /\ last.op = "insert" /\ last.outcome = "ok"
    /\ ValidGrid /\ width = 2 /\ chunk_size = 1 /\ Height = 2
    /\ last.bounds = <<1, 0, 1, 2>>
    /\ last.data = <<1, 0>>
    /\ last.pre = <<1, 0, 1, 1>>
    /\ grid_slice(debug_assertions, arr, width, chunk_size, last.bounds).result = <<1, 0>>

\* C2: frame of write and insert. For a box inside a well-formed grid, every
\* element of a cell in a row outside [y, y+h) or a column outside [x, x+w)
\* has the value it had before the call, whether the call succeeded or not.
C2_Frame ==
    (/\ last.op \in {"write", "insert"}
     /\ ValidGrid /\ InsideGrid)
    => /\ Len(arr) = Len(last.pre)
       /\ \A i \in 0..(Len(arr) - 1) :
            (\/ RowOf(i) < by \/ RowOf(i) >= by + bh
             \/ ColOf(i) < bx \/ ColOf(i) >= bx + bw)
            => arr[i + 1] = last.pre[i + 1]

C2_Witness ==
    /\ last.op = "write" /\ last.outcome = "ok"
    /\ ValidGrid /\ width = 2 /\ chunk_size = 2 /\ Height = 1
    /\ last.bounds = <<1, 0, 1, 1>>
    /\ last.pre = <<1, 1, 0, 0>>
    /\ arr = <<1, 1, 1, 1>>

\* C3: insert placement. After a successful insert of D into a box inside a
\* well-formed grid, buffer[x*c + (y+r)*W*c + j] = D[r*w*c + j] for every row r
\* of the box and every j below w*c.
C3_InsertPlacement ==
    (/\ last.op = "insert" /\ last.outcome = "ok"
     /\ ValidGrid /\ InsideGrid)
    => \A r \in 0..(bh - 1) : \A j \in 0..(bw * chunk_size - 1) :
         arr[bx * chunk_size + (by + r) * width * chunk_size + j + 1]
            = last.data[r * bw * chunk_size + j + 1]

C3_Witness ==
    /\ last.op = "insert" /\ last.outcome = "ok"
    /\ ValidGrid /\ width = 1 /\ chunk_size = 2 /\ Height = 2
    /\ last.bounds = <<0, 0, 1, 2>>
    /\ last.data = <<0, 1, 1, 0>>
    /\ last.pre = <<1, 1, 1, 1>>
    /\ arr = <<0, 1, 1, 0>>

\* C4: write ordering. write(R, f) on a box of positive area inside a
\* well-formed grid returns normally having called the mutator exactly h times,
\* with row indices 0, 1, ..., h-1 in that order, the call for row r being
\* given exactly the w*c elements of the r-th row range.
C4_WriteOrdering ==
    (/\ last.op = "write"
     /\ ValidGrid /\ PositiveArea /\ InsideGrid)
    => /\ last.outcome = "ok"
       /\ Len(last.calls) = bh
       /\ \A r \in 1..bh :
            LET start == bx * chunk_size + (by + r - 1) * width * chunk_size
            IN  /\ last.calls[r].row = r - 1
                /\ last.calls[r].start = start
                /\ last.calls[r].end = start + bw * chunk_size
                /\ last.calls[r].given
                     = [j \in 1..(bw * chunk_size) |-> last.pre[start + j]]

C4_Witness ==
    /\ last.op = "write" /\ last.outcome = "ok"
    /\ ValidGrid /\ width = 2 /\ chunk_size = 1 /\ Height = 2
    /\ last.bounds = <<1, 0, 1, 2>>
    /\ Len(last.calls) = 2
    /\ last.calls[1].row = 0 /\ last.calls[1].start = 1
    /\ last.calls[2].row = 1 /\ last.calls[2].start = 3

\* C5: region-bounds validation, as claimed. A call of write, insert or slice
\* on a well-formed grid whose box (of positive area) reaches past the grid's
\* width or height is rejected: it fails, no mutator call has been made and the
\* buffer is as it was.
C5_BoundsRejected ==
    (/\ RegionCall
     /\ ValidGrid /\ PositiveArea
     /\ (bx + bw > width \/ by + bh > Height))
    => /\ last.outcome = "panic"
       /\ last.calls = <<>>
       /\ arr = last.pre

\* C6: positive-area precondition, as claimed. A call of write, insert or slice
\* on a well-formed grid with a box of area 0 fails on the region-area check, the mutator is not
\* called and the buffer is as it was.
C6_AreaRejected ==
    (/\ RegionCall
     /\ ValidGrid
     /\ bw * bh = 0)
    => /\ last.outcome = "panic"
       /\ last.err.kind = "area_assert"
       /\ last.calls = <<>>
       /\ arr = last.pre

\* C6, amended. A call of write, insert or slice with a box of area 0 leaves
\* the buffer as it was in every build. Built with debug assertions it fails
\* before any element is accessed and before any mutator call: on the
\* region-area check, except insert with w = 0, which fails before that on
\* chunks_exact's zero line length.
C6_AreaRejectedInDebug ==
    (/\ RegionCall
     /\ bw * bh = 0)
    => /\ arr = last.pre
       /\ debug_assertions
            => /\ last.outcome = "panic"
               /\ last.calls = <<>>
               /\ last.err.kind
                    = IF last.op = "insert" /\ bw = 0
                      THEN "chunks_exact_zero" ELSE "area_assert"

C6_Witness ==
    /\ debug_assertions
    /\ last.op = "write"
    /\ ValidGrid /\ width = 2 /\ Height = 2
    /\ last.bounds = <<0, 0, 0, 2>>
    /\ last.outcome = "panic" /\ last.err.kind = "area_assert"
    /\ arr = last.pre

\* C7: insert data-shape error. For a box of positive area inside a well-formed
\* grid, when the data holds only k < h complete lines of w*c elements, insert
\* fails naming k as the row where the data stopped and h as the expected rows.
C7_DataShape ==
    (/\ last.op = "insert"
     /\ ValidGrid /\ PositiveArea /\ InsideGrid
     /\ Len(last.data) \div (bw * chunk_size) < bh)
    => /\ last.outcome = "panic"
       /\ last.err.kind = "data_stopped"
       /\ last.err.row = Len(last.data) \div (bw * chunk_size)
       /\ last.err.expected = bh

C7_Witness ==
    /\ last.op = "insert"
    /\ ValidGrid /\ width = 2 /\ chunk_size = 1 /\ Height = 2
    /\ last.bounds = <<0, 0, 2, 2>>
    /\ Len(last.data) = 2
    /\ last.outcome = "panic" /\ last.err.kind = "data_stopped"
    /\ last.err.row = 1 /\ last.err.expected = 2

\* The finished Grid2D::new's arguments.
new_width == last.bounds[3]
new_chunk_size == last.bounds[4]

\* C8: construction validation, as claimed. new with width >= 1 and
\* chunk_size >= 1 fails exactly when the buffer length is no multiple of
\* width * chunk_size, and no grid with such a length exists.
C8_Construction ==
    /\ (last.op = "new" /\ new_width >= 1 /\ new_chunk_size >= 1)
       => ((last.outcome = "panic")
             <=> (Len(last.data) % (new_width * new_chunk_size) # 0))
    /\ (constructed /\ width >= 1 /\ chunk_size >= 1)
       => Len(arr) % (width * chunk_size) = 0

\* C8, amended. Built with debug assertions, new with width >= 1 and
\* chunk_size >= 1 fails on the length assertion exactly when the buffer length
\* is no multiple of width * chunk_size (lengths 10 with width 3 and chunk 1,
\* 24 with width 8 and chunk 2), succeeds otherwise, and every grid is well
\* formed.
C8_ConstructionInDebug ==
    debug_assertions
    => /\ (last.op = "new" /\ new_width >= 1 /\ new_chunk_size >= 1)
          => IF Len(last.data) % (new_width * new_chunk_size) # 0
             THEN /\ last.outcome = "panic"
                  /\ last.err.kind = "length_assert"
                  /\ ~constructed
             ELSE /\ last.outcome = "ok"
                  /\ constructed
                  /\ arr = last.data
                  /\ width = new_width
                  /\ chunk_size = new_chunk_size
       /\ constructed => ValidGrid
       /\ grid_new(debug_assertions, 10, 3, 1) = "length_assert"
       /\ grid_new(debug_assertions, 24, 8, 2) = "length_assert"
       /\ grid_new(debug_assertions, 18, 3, 2) = "ok"

C8_Witness ==
    /\ debug_assertions
    /\ last.op = "new" /\ new_width = 2 /\ new_chunk_size = 1
    /\ Len(last.data) = 3
    /\ last.outcome = "panic" /\ last.err.kind = "length_assert"
    /\ ~constructed

\* C9: chunk size zero, as claimed. new with chunk_size 0 fails on the
\* chunk-size check for every buffer and width, and no grid has chunk_size 0.
C9_ChunkSizeZero ==
    /\ (last.op = "new" /\ new_chunk_size = 0)
       => /\ last.outcome = "panic"
          /\ last.err.kind = "chunk_size_assert"
          /\ ~constructed
    /\ constructed => chunk_size # 0

\* C9, amended. Built with debug assertions, new with chunk_size 0 fails on the
\* chunk-size check for every buffer and width, and no grid has chunk_size 0.
C9_ChunkSizeZeroInDebug ==
    debug_assertions
    => /\ (last.op = "new" /\ new_chunk_size = 0)
          => /\ last.outcome = "panic"
             /\ last.err.kind = "chunk_size_assert"
             /\ ~constructed
       /\ constructed => chunk_size # 0

C9_Witness ==
    /\ debug_assertions
    /\ last.op = "new" /\ new_chunk_size = 0 /\ new_width = 0
    /\ Len(last.data) = 3
    /\ last.outcome = "panic" /\ last.err.kind = "chunk_size_assert"
    /\ ~constructed

\* C10: row-range shape. For a well-formed grid and every box of positive area
\* inside it, row_ranges yields exactly h ranges, each w * chunk_size long, no
\* two of them sharing an index.
C10_RowRangeShape ==
    ValidGrid
    => \A b \in Regions :
         (b[3] >= 1 /\ b[4] >= 1 /\ b[1] + b[3] <= width /\ b[2] + b[4] <= Height)
         => LET rows == row_ranges(b, width, chunk_size)
            IN  /\ Len(rows) = b[4]
                /\ \A r \in 1..Len(rows) : rows[r].end - rows[r].start = b[3] * chunk_size
                /\ \A r, q \in 1..Len(rows) :
                     r # q => (rows[r].end <= rows[q].start \/ rows[q].end <= rows[r].start)

C10_Witness ==
    /\ ValidGrid /\ width = 1 /\ chunk_size = 2 /\ Height = 2
    /\ last.op = "slice" /\ last.outcome = "ok"
    /\ last.bounds = <<0, 0, 1, 2>>
    /\ Len(row_ranges(last.bounds, width, chunk_size)) = 2
    /\ Len(last.result) = 4

\* A range start..end as row_ranges yields it.
Range(start, end) == [start |-> start, end |-> end]

\* C11: row-range formula. For every box (x, y, w, h), grid width W and chunk
\* size c, the r-th range row_ranges yields (r from 0, in order) is
\* [x*c + (y+r)*W*c, x*c + (y+r)*W*c + w*c), and the ranges write hands to its
\* mutator are these; (1,1,1,2) on a 3-wide grid gives [4,5), [7,8) with c = 1
\* and [8,10), [14,16) with c = 2.
C11_RowRangeFormula ==
    /\ constructed
       => \A b \in Regions :
            LET rows == row_ranges(b, width, chunk_size)
            IN  /\ Len(rows) = b[4]
                /\ \A r \in 0..(b[4] - 1) :
                     rows[r + 1]
                       = Range(b[1] * chunk_size + (b[2] + r) * width * chunk_size,
                               b[1] * chunk_size + (b[2] + r) * width * chunk_size
                                 + b[3] * chunk_size)
    /\ (last.op = "write")
       => \A r \in 0..(Len(last.calls) - 1) :
            /\ last.calls[r + 1].start
                 = bx * chunk_size + (by + r) * width * chunk_size
            /\ last.calls[r + 1].end
                 = bx * chunk_size + (by + r) * width * chunk_size + bw * chunk_size
    /\ row_ranges(<<1, 1, 1, 2>>, 3, 1) = <<Range(4, 5), Range(7, 8)>>
    /\ row_ranges(<<1, 1, 1, 2>>, 3, 2) = <<Range(8, 10), Range(14, 16)>>

C11_Witness ==
    /\ last.op = "write" /\ last.outcome = "ok"
    /\ width = 2 /\ chunk_size = 2 /\ Len(arr) = 4
    /\ last.bounds = <<1, 0, 1, 1>>
    /\ Len(last.calls) = 1
    /\ last.calls[1].start = 2 /\ last.calls[1].end = 4

\* C12: in-bounds access. For a well-formed grid and every box of positive area
\* inside it, every range row_ranges yields lies within [0, buffer length), and
\* a call of write, insert or slice on such a box never fails on a slice index
\* and hands its mutator only ranges within the buffer.
C12_InBoundsAccess ==
    ValidGrid
    => /\ \A b \in Regions :
            (b[3] >= 1 /\ b[4] >= 1 /\ b[1] + b[3] <= width /\ b[2] + b[4] <= Height)
            => \A r \in 1..b[4] :
                 LET range == row_ranges(b, width, chunk_size)[r]
                 IN  0 <= range.start /\ range.start < range.end
                     /\ range.end <= Len(arr)
       /\ (RegionCall /\ PositiveArea /\ InsideGrid)
          => /\ last.err.kind # "index_out_of_range"
             /\ \A k \in 1..Len(last.calls) :
                  0 <= last.calls[k].start /\ last.calls[k].end <= Len(arr)

C12_Witness ==
    /\ ValidGrid /\ width = 2 /\ chunk_size = 1 /\ Height = 2
    /\ last.op = "write" /\ last.outcome = "ok"
    /\ last.bounds = <<1, 1, 1, 1>>
    /\ Len(last.calls) = 1
    /\ last.calls[1].end = Len(arr)

\* C13: slice content. For a box of positive area inside a well-formed grid,
\* slice returns w*c*h elements, the one at r*w*c + j being
\* buffer[x*c + (y+r)*W*c + j]: the row ranges one after the other, in row order.
C13_SliceContent ==
    (/\ last.op = "slice"
     /\ ValidGrid /\ PositiveArea /\ InsideGrid)
    => /\ last.outcome = "ok"
       /\ Len(last.result) = bw * chunk_size * bh
       /\ \A r \in 0..(bh - 1) : \A j \in 0..(bw * chunk_size - 1) :
            last.result[r * bw * chunk_size + j + 1]
              = arr[bx * chunk_size + (by + r) * width * chunk_size + j + 1]

C13_Witness ==
    /\ last.op = "slice" /\ last.outcome = "ok"
    /\ ValidGrid /\ width = 2 /\ chunk_size = 1 /\ Height = 2
    /\ last.bounds = <<1, 0, 1, 2>>
    /\ arr = <<0, 1, 1, 0>>
    /\ last.result = <<1, 0>>

\* C16: size query. On a well-formed grid (width >= 1, chunk_size >= 1, length
\* an exact multiple of width*chunk_size) size() returns the pair
\* (width, length / (width*chunk_size)): the two divisions of the code,
\* (length / chunk_size) / width, give the height of the single division.
C16_SizeQuery ==
    /\ (last.op = "size" /\ ValidGrid)
       => /\ last.outcome = "ok"
          /\ last.result = <<width, Len(arr) \div (width * chunk_size)>>
          /\ Len(arr) = last.result[1] * chunk_size * last.result[2]
    /\ \A n \in 0..MaxLen :
         grid_size([i \in 1..(6 * n) |-> 0], 3, 2).result = <<3, n>>

C16_Witness ==
    /\ last.op = "size" /\ last.outcome = "ok"
    /\ ValidGrid /\ width = 1 /\ chunk_size = 2 /\ Len(arr) = 4
    /\ last.result = <<1, 2>>

\* C19: index lookup. index((x, y)) returns x*chunk_size + y*width*chunk_size
\* for every x and y, also for coordinates outside the grid and on a grid of
\* any shape: it validates nothing and never fails, and the buffer is as it was.
C19_IndexLookup ==
    (last.op = "index")
    => /\ last.outcome = "ok"
       /\ last.err = NoErr
       /\ last.result = <<bx * chunk_size + by * width * chunk_size>>
       /\ arr = last.pre

C19_Witness ==
    /\ last.op = "index" /\ last.outcome = "ok"
    /\ ValidGrid /\ width = 1 /\ chunk_size = 2 /\ Len(arr) = 2
    /\ bx = 2 /\ by = 1
    /\ last.result = <<6>>

\* C17: shape fixed after construction. Construction sets buffer, width and
\* chunk_size to the values given, and no later step (a write, insert, slice,
\* index or size call, failing ones included, or a return) changes the buffer
\* length, the width or the chunk_size; so a well-formed grid stays well-formed
\* and size() keeps answering the same.
C17_ShapeFixed ==
    [][/\ (~constructed /\ constructed')
          => /\ arr' = last'.data
             /\ width' = last'.bounds[3]
             /\ chunk_size' = last'.bounds[4]
       /\ constructed
          => /\ constructed'
             /\ Len(arr') = Len(arr)
             /\ width' = width
             /\ chunk_size' = chunk_size
             /\ ValidGrid => ValidGrid'
             /\ grid_size(arr', width', chunk_size')
                  = grid_size(arr, width, chunk_size)]_vars

\* A failing insert that has changed elements, the shape being what it was.
C17_Witness ==
    /\ ValidGrid /\ width = 1 /\ chunk_size = 1
    /\ last.op = "insert" /\ last.outcome = "panic"
    /\ arr # last.pre
    /\ Len(arr) = Len(last.pre) /\ Len(arr) = 2

\* C18: slice is a pure, repeatable read. After a slice call every buffer
\* element is what it was before the call, and slicing the same box again, with
\* no write or insert in between, returns what the call returned.
C18_SlicePure ==
    (last.op = "slice")
    => /\ arr = last.pre
       /\ LET again == grid_slice(debug_assertions, arr, width, chunk_size,
                                  last.bounds)
          IN  /\ again.outcome = last.outcome
              /\ again.err = last.err
              /\ again.result = last.result

C18_Witness ==
    /\ last.op = "slice" /\ last.outcome = "ok"
    /\ ValidGrid /\ width = 2 /\ chunk_size = 1 /\ Height = 2
    /\ last.bounds = <<0, 0, 1, 2>>
    /\ last.result = <<1, 1>>
    /\ arr = <<1, 0, 1, 0>>

\* The box that covers the whole grid.
WholeGrid == <<0, 0, width, Height>>

\* The row ranges of the whole-grid box start at 0, each starts where the one
\* before ends, the last ends at the buffer's end, and every buffer index lies
\* in exactly one of them.
WholeGridRanges ==
    LET rows == row_ranges(WholeGrid, width, chunk_size)
    IN  /\ Len(rows) = Height
        /\ \A r \in 1..Len(rows) :
             rows[r].start = (IF r = 1 THEN 0 ELSE rows[r - 1].end)
        /\ (IF Len(rows) = 0 THEN 0 ELSE rows[Len(rows)].end) = Len(arr)
        /\ \A i \in 0..(Len(arr) - 1) :
             Cardinality({r \in 1..Len(rows) :
                            rows[r].start <= i /\ i < rows[r].end}) = 1

\* slice of the whole-grid box returns the buffer; insert of any D as long as
\* the buffer into the whole-grid box makes the buffer D.
WholeGridSliceInsert ==
    /\ LET r == grid_slice(debug_assertions, arr, width, chunk_size, WholeGrid)
       IN  r.outcome = "ok" /\ r.result = arr
    /\ Ready
       => \A D \in [1..Len(arr) -> Values] :
            LET r == grid_insert(debug_assertions, arr, width, chunk_size,
                                 WholeGrid, D)
            IN  r.outcome = "ok" /\ r.arr = D
    /\ (/\ last.op \in {"insert", "slice"}
        /\ last.bounds = WholeGrid
        /\ last.op = "insert" => Len(last.data) = Len(arr))
       => /\ last.outcome = "ok"
          /\ last.op = "insert" => arr = last.data
          /\ last.op = "slice" => last.result = arr

\* C15 as stated: whole-grid boundary. On every well-formed grid the row ranges
\* of (0, 0, width, height) are adjacent and cover the buffer's indices exactly
\* once, slice of that box returns the whole buffer in order, and insert of a D
\* as long as the buffer makes the buffer equal to D.
C15_WholeGrid ==
    ValidGrid => (WholeGridRanges /\ WholeGridSliceInsert)

\* C15, amended: the same on every well-formed grid of at least one row. (On an
\* empty buffer the whole-grid box has height 0, and a build with debug
\* assertions panics on it in slice and insert.)
C15_WholeGridNonEmpty ==
    (ValidGrid /\ Height >= 1) => (WholeGridRanges /\ WholeGridSliceInsert)

C15_Witness ==
    /\ ValidGrid /\ width = 2 /\ chunk_size = 1 /\ Height = 2
    /\ last.op = "insert" /\ last.outcome = "ok"
    /\ last.bounds = WholeGrid
    /\ last.pre = <<0, 1, 1, 0>>
    /\ last.data = <<1, 0, 0, 1>>
    /\ arr = last.data

---------------------------------------------------------------------------
\* SpecWrites: a well-formed grid, then up to MaxWrites write calls, each on a
\* box of positive area inside the grid with a mutator that adds d to every
\* element it is given. The caller takes each outcome at once.

\* The box lies inside the grid and has positive area.
InBounds(b) ==
    /\ b[3] >= 1 /\ b[4] >= 1
    /\ b[1] + b[3] <= width
    /\ b[2] + b[4] <= Height

InitWrites ==
    /\ debug_assertions \in BOOLEAN
    /\ constructed = TRUE
    /\ \E a \in Buffers, gw \in Dims, cs \in Dims :
         /\ grid_new(debug_assertions, Len(a), gw, cs) = "ok"
         /\ gw >= 1 /\ cs >= 1 /\ Len(a) % (gw * cs) = 0
         /\ arr = a
         /\ width = gw
         /\ chunk_size = cs
         /\ initial = a
    /\ last = NoCall
    /\ writes = <<>>
    /\ box = <<0, 0, 0, 0>>
    /\ trail = NoTrail

WriteSeq ==
    /\ Len(writes) < MaxWrites
    /\ \E b \in Regions, d \in WriteDeltas :
         LET r == grid_write(debug_assertions, arr, width, chunk_size, b,
                             add_mutator(d), <<>>)
         IN  /\ InBounds(b)
             /\ arr' = r.arr
             /\ last' = [NoCall EXCEPT !.op = "write", !.bounds = b, !.delta = d,
                                       !.outcome = r.outcome, !.err = r.err,
                                       !.calls = r.calls, !.pre = arr]
             /\ writes' = Append(writes, [bounds |-> b, delta |-> d])
    /\ UNCHANGED <<debug_assertions, constructed, width, chunk_size>>
    /\ UNCHANGED <<initial, box, trail>>

NextWrites == WriteSeq

SpecWrites == InitWrites /\ [][NextWrites]_vars

\* The cell of buffer index i (from 0) lies in box b.
CellIn(i, b) ==
    /\ b[1] <= ColOf(i) /\ ColOf(i) < b[1] + b[3]
    /\ b[2] <= RowOf(i) /\ RowOf(i) < b[2] + b[4]

\* The sum of the amounts of the first k write calls whose box holds i's cell.
RECURSIVE SumDeltas(_, _)
SumDeltas(i, k) ==
    IF k = 0 THEN 0
    ELSE SumDeltas(i, k - 1)
           + (IF CellIn(i, writes[k].bounds) THEN writes[k].delta ELSE 0)

\* C14: sequenced writes compose per element. After any sequence of write
\* calls on in-bounds boxes, the i-th adding d_i to every element it is given,
\* every buffer element is its value at construction plus the sum of the d_i of
\* exactly the calls whose box holds the element's cell; on a zeroed 3x3 grid
\* of chunk size 2, write((0,1,2,1), +5) then write((1,1,2,2), +2) leaves
\* 0,0,0,0,0,0, 5,5,7,7,2,2, 0,0,2,2,2,2.
C14_WritesCompose ==
    /\ Len(arr) = Len(initial)
    /\ \A i \in 0..(Len(arr) - 1) :
         arr[i + 1] = initial[i + 1] + SumDeltas(i, Len(writes))
    /\ last.op = "write" => last.outcome = "ok"
    /\ LET first == grid_write(debug_assertions, [i \in 1..18 |-> 0], 3, 2,
                               <<0, 1, 2, 1>>, add_mutator(5), <<>>)
           second == grid_write(debug_assertions, first.arr, 3, 2,
                                <<1, 1, 2, 2>>, add_mutator(2), <<>>)
       IN  /\ first.outcome = "ok" /\ second.outcome = "ok"
           /\ second.arr = <<0, 0, 0, 0, 0, 0,  5, 5, 7, 7, 2, 2,
                             0, 0, 2, 2, 2, 2>>

\* Two overlapping writes on a 2x2 grid of chunk size 1: the shared cell has
\* both amounts, the others one or none.
C14_Witness ==
    /\ width = 2 /\ chunk_size = 1
    /\ initial = <<1, 0, 0, 1>>
    /\ writes = <<[bounds |-> <<0, 0, 2, 1>>, delta |-> 5],
                  [bounds |-> <<1, 0, 1, 2>>, delta |-> 2]>>
    /\ arr = <<6, 7, 0, 3>>

---------------------------------------------------------------------------
\* SpecBounds: a bounding box, an offset or a size added to it, and then an
\* offset or a size subtracted from the sum.

InitBounds ==
    /\ debug_assertions \in BOOLEAN
    /\ constructed = FALSE
    /\ arr = <<>>
    /\ width = 0
    /\ chunk_size = 0
    /\ last = NoCall
    /\ initial = <<>>
    /\ writes = <<>>
    /\ box \in Boxes
    /\ trail = [NoTrail EXCEPT !.orig = box]

AddOffset ==
    /\ trail.op = "none"
    /\ \E rhs \in Offsets :
         /\ box' = bounds_add_offset(box, rhs)
         /\ trail' = [trail EXCEPT !.op = "add_offset", !.rhs = rhs]
    /\ UNCHANGED <<debug_assertions, constructed, arr, width, chunk_size, last>>
    /\ UNCHANGED <<initial, writes>>

AddSize ==
    /\ trail.op = "none"
    /\ \E rhs \in Sizes :
         /\ box' = bounds_add_size(box, rhs)
         /\ trail' = [trail EXCEPT !.op = "add_size", !.rhs = rhs]
    /\ UNCHANGED <<debug_assertions, constructed, arr, width, chunk_size, last>>
    /\ UNCHANGED <<initial, writes>>

SubOffset ==
    /\ trail.op = "add_offset"
    /\ \E rhs \in Offsets :
         /\ box' = bounds_sub_offset(box, rhs)
         /\ trail' = [trail EXCEPT !.op = "sub_offset", !.sub = rhs]
    /\ UNCHANGED <<debug_assertions, constructed, arr, width, chunk_size, last>>
    /\ UNCHANGED <<initial, writes>>

SubSize ==
    /\ trail.op = "add_size"
    /\ \E rhs \in Sizes :
         /\ box' = bounds_sub_size(box, rhs)
         /\ trail' = [trail EXCEPT !.op = "sub_size", !.sub = rhs]
    /\ UNCHANGED <<debug_assertions, constructed, arr, width, chunk_size, last>>
    /\ UNCHANGED <<initial, writes>>

NextBounds == AddOffset \/ AddSize \/ SubOffset \/ SubSize

SpecBounds == InitBounds /\ [][NextBounds]_vars

\* C20: bounds arithmetic frame. Adding an offset (dx, dy) to a box
\* (x, y, w, h) gives (x+dx, y+dy, w, h), the size as it was; adding a size
\* (dw, dh) gives (x, y, w+dw, h+dh), the position as it was; subtracting the
\* same offset or size from the sum gives the original box back. The crate's
\* example: (0, 40, 5, 5) + offset (3, 5) + size (10, 10) = (3, 45, 15, 15).
C20_BoundsFrame ==
    LET o == trail.orig
        r == trail.rhs
    IN  /\ trail.op = "add_offset"
           => box = <<o[1] + r[1], o[2] + r[2], o[3], o[4]>>
        /\ trail.op = "add_size"
           => box = <<o[1], o[2], o[3] + r[1], o[4] + r[2]>>
        /\ (trail.op \in {"sub_offset", "sub_size"} /\ trail.sub = trail.rhs)
           => box = o
        /\ bounds_add_size(bounds_add_offset(<<0, 40, 5, 5>>, <<3, 5>>),
                           <<10, 10>>) = <<3, 45, 15, 15>>

C20_Witness ==
    /\ trail.op = "sub_size"
    /\ trail.orig = <<1, 2, 1, 0>>
    /\ trail.rhs = <<1, 1>>
    /\ trail.sub = trail.rhs
    /\ box = <<1, 2, 1, 0>>

---------------------------------------------------------------------------
\* The finished insert's line length, and the complete lines its data holds.
last_line_length == bw * chunk_size

last_complete_lines == Len(last.data) \div last_line_length

\* C21: insert is not atomic on a data-shape failure. When insert(R, D) on a
\* box of positive area inside a well-formed grid fails because D holds only
\* k < h complete lines, the first k rows of R hold the first k lines of D, and
\* rows k..h-1 of R and every element outside R hold what they held before the
\* call: the rows written before the failure stay written.
C21_InsertNotAtomic ==
    (/\ last.op = "insert"
     /\ ValidGrid /\ PositiveArea /\ InsideGrid
     /\ last_complete_lines < bh)
    => /\ last.outcome = "panic"
       /\ last.err.kind = "data_stopped"
       /\ Len(arr) = Len(last.pre)
       /\ \A i \in 0..(Len(arr) - 1) :
            LET r == RowOf(i) - by
                j == (i % (width * chunk_size)) - bx * chunk_size
            IN  arr[i + 1]
                  = (IF CellIn(i, last.bounds) /\ r < last_complete_lines
                     THEN last.data[r * last_line_length + j + 1]
                     ELSE last.pre[i + 1])

\* One complete line of two needed: row 0 of the box is overwritten, row 1 and
\* the column outside the box are as before, and the buffer differs from the
\* buffer before the call.
C21_Witness ==
    /\ ValidGrid /\ width = 2 /\ chunk_size = 1 /\ Height = 2
    /\ last.op = "insert" /\ last.outcome = "panic"
    /\ last.err.kind = "data_stopped"
    /\ last.bounds = <<1, 0, 1, 2>>
    /\ last.data = <<1>>
    /\ last.pre = <<0, 0, 0, 0>>
    /\ arr = <<0, 1, 0, 0>>

\* C22: insert ignores surplus data. When D is longer than w*chunk_size*h (by
\* further complete lines or by a run shorter than a line), insert(R, D) on a
\* box of positive area inside a well-formed grid succeeds, calls its closure h
\* times, puts the first h lines of D into R's rows and leaves everything else
\* as it was: the buffer insert(R, the first w*chunk_size*h elements of D)
\* leaves.
C22_SurplusIgnored ==
    (/\ last.op = "insert"
     /\ ValidGrid /\ PositiveArea /\ InsideGrid
     /\ Len(last.data) > last_line_length * bh)
    => /\ last.outcome = "ok"
       /\ last.err = NoErr
       /\ Len(last.calls) = bh
       /\ Len(arr) = Len(last.pre)
       /\ \A i \in 0..(Len(arr) - 1) :
            LET r == RowOf(i) - by
                j == (i % (width * chunk_size)) - bx * chunk_size
            IN  arr[i + 1]
                  = (IF CellIn(i, last.bounds)
                     THEN last.data[r * last_line_length + j + 1]
                     ELSE last.pre[i + 1])
       /\ LET exact == grid_insert(debug_assertions, last.pre, width, chunk_size,
                                   last.bounds,
                                   SubSeq(last.data, 1, last_line_length * bh))
          IN  exact.outcome = "ok" /\ exact.arr = arr

\* Three elements for a box of one line of two: the third is a run shorter
\* than a line, and is not stored.
C22_Witness ==
    /\ ValidGrid /\ width = 2 /\ chunk_size = 1 /\ Height = 2
    /\ last.op = "insert" /\ last.outcome = "ok"
    /\ last.bounds = <<0, 1, 2, 1>>
    /\ last.data = <<1, 0, 1>>
    /\ last.pre = <<0, 0, 0, 1>>
    /\ arr = <<0, 0, 1, 0>>

\* Two elements for a box of one line of one: the second is a further complete
\* line, and is not stored.
C22_WitnessFurtherLine ==
    /\ ValidGrid /\ width = 2 /\ chunk_size = 1 /\ Height = 2
    /\ last.op = "insert" /\ last.outcome = "ok"
    /\ last.bounds = <<1, 0, 1, 1>>
    /\ last.data = <<1, 1>>
    /\ last.pre = <<0, 0, 0, 0>>
    /\ arr = <<0, 1, 0, 0>>

=============================================================================
